---- MODULE Spec2Model ----
(***************************************************************************)
(* A model of capture_mac: the batch page capture of shot.py               *)
(* (batch_capture and what it calls, single calls of get_window_info and   *)
(* capture_window, the start of main) and the rate-limit-aware OCR run of  *)
(* llm_ocr.py (main with its merge, and perform_mistral_ocr).              *)
(*                                                                         *)
(* Strings the code inspects are sequences of one-character strings, so    *)
(* that str(), zfill(), split(',') and lower() are computed, not assumed.  *)
(* Blocking sleeps of the capture loop change no state and are left out;   *)
(* the sleeps of the OCR run are events, since claims speak of them.       *)
(***************************************************************************)
EXTENDS Integers, Sequences, FiniteSets, TLC

VARIABLES
    \* ---- shot.py, batch_capture: arguments
    depsOk,        \* WindowCapture._check_dependencies()
    app_name,      \* selector: process name ("" / None is <<>>)
    window_label,  \* selector: window title
    start,         \* first page index
    no,            \* page count
    next_action,   \* "x,y" or a key name
    width,         \* override width, 0 when not given
    height,        \* override height, 0 when not given
    \* ---- shot.py, batch_capture: environment and locals
    windows,       \* what the window enumeration returns right now
    pc,            \* position in batch_capture
    info,          \* result of the last get_window_info
    geom,          \* the locals x, y, w, h
    pad_width,
    i,             \* loop variable
    img_paths,     \* the list that is returned
    files,         \* files on disk under output_dir
    trace,         \* side effects issued so far, in order
    \* ---- shot.py, one call of WindowCapture.capture_window
    margins,       \* margin_top, margin_bottom, margin_left, margin_right
    screen,        \* what the screen shows in the region of the capture
    out_img,       \* the image saved under output_path
    cret,          \* what capture_window returned
    \* ---- shot.py, main
    show,          \* --show is on the command line
    exit_code,     \* exit status of the process, Running while it runs
    \* ---- llm_ocr.py: environment shared by every run
    apiKeySet,     \* MISTRAL_API_KEY is not empty
    nfiles,        \* png_files is 1..nfiles, in sorted order
    txt,           \* the per-image .txt outputs on disk
    lock,          \* holder of /tmp/mistral_api.lock, 0 when free
    \* ---- llm_ocr.py: one main() per process
    procs,         \* the processes of this run of the model
    omode,         \* "file" (--input-file) or "dir" (--input-dir)
    opc,           \* position in main
    site,          \* which call of perform_mistral_ocr the process is in
    oitem,         \* the png at hand
    idx,           \* position of the main loop in png_files
    retry_list,
    rpos,          \* position of the retry loop in retry_list
    text,          \* what perform_mistral_ocr returned last
    inflight,      \* the request of the process is with the remote API
    recording,     \* whether olog is kept
    olog,          \* calls and sleeps of the run so far, in order
    merge,         \* args.merge of each process
    merged,        \* the file {dirname}_merged.txt of the output directory
    mpos,          \* how many image outputs sort before the merged file's name
    mitem,         \* the image named {dirname}_merged.png, 0 when there is none
    run,           \* which run over the directory this is
    \* ---- legacy/zfill.py, zero_pad_filenames
    directory,     \* the files of the directory: name and content
    padding,
    fnames,        \* what is left of os.listdir(directory) to go through
    zpc,           \* position in zero_pad_filenames
    zcall,         \* which call with this padding this is
    renamed,       \* how many os.rename the call has made
    original,      \* the files of the directory before the first call
    \* ---- legacy/main_gui.py
    worker,        \* ShotGui.worker: 0 for None, or the place of the Worker in threads
    threads,       \* every Worker made so far, in the order they were made
    gpc,           \* position of the GUI thread in start_workflow
    clicks,        \* how often runButton has been clicked
    glog           \* how often 'already running' was appended to logTextEdit

bvars == <<depsOk, app_name, window_label, start, no, next_action, width, height,
           windows, pc, info, geom, pad_width, i, img_paths, files, trace>>

cvars == <<margins, screen, out_img, cret>>

clivars == <<show, exit_code>>

\* the value of exit_code of a process that has not exited (an exit status is
\* 0 or more)
Running == 0 - 1

mvars == <<merge, merged, mpos, mitem, run>>

zvars == <<directory, padding, fnames, zpc, zcall, renamed, original>>

gvars == <<worker, threads, gpc, clicks, glog>>

lvars == <<zvars, gvars>>

ovars == <<apiKeySet, nfiles, txt, lock, procs, omode, opc, site, oitem, idx,
           retry_list, rpos, text, inflight, recording, olog, mvars>>

vars == <<bvars, cvars, clivars, ovars, lvars>>

-----------------------------------------------------------------------------
(* Bounds *)

MaxStart == 10
MaxCount == 3

-----------------------------------------------------------------------------
(* Python helpers, computed as Python computes them *)

Digit(d) == <<"0", "1", "2", "3", "4", "5", "6", "7", "8", "9">>[d + 1]

\* str(n) for n >= 0: the decimal digits, most significant first
RECURSIVE str(_)
str(n) == IF n < 10 THEN <<Digit(n)>> ELSE Append(str(n \div 10), Digit(n % 10))

zfill_nopad(s, w) == s

\* s.zfill(w): zeros on the left up to width w, never a truncation
RECURSIVE zfill(_, _)
zfill(s, w) == IF Len(s) >= w THEN s ELSE zfill(<<"0">> \o s, w)

IsDigit(c) == c \in {"0", "1", "2", "3", "4", "5", "6", "7", "8", "9"}

\* s.split(','): the parts between the commas, empty parts kept
RECURSIVE split_comma(_)
split_comma(s) ==
    IF \A k \in DOMAIN s : s[k] # ","
    THEN <<s>>
    ELSE LET p == CHOOSE k \in DOMAIN s : s[k] = "," /\ \A j \in 1..(k - 1) : s[j] # ","
         IN  <<SubSeq(s, 1, p - 1)>> \o split_comma(SubSeq(s, p + 1, Len(s)))

\* whether int(part) returns (over the characters the model draws from)
int_ok(part) == Len(part) > 0 /\ \A k \in DOMAIN part : IsDigit(part[k])

has_comma(s) == \E k \in DOMAIN s : s[k] = ","

\* nx, ny = map(int, next_action.split(',')) returns: two parts, both integers
parse_click_ok(s) ==
    LET parts == split_comma(s)
    IN  Len(parts) = 2 /\ int_ok(parts[1]) /\ int_ok(parts[2])

LowerChar(c) ==
    CASE c = "S" -> "s"
      [] c = "B" -> "b"
      [] c = "P" -> "p"
      [] OTHER -> c

\* s.lower()
lower(s) == [k \in DOMAIN s |-> LowerChar(s[k])]

\* A string is a sequence of tokens: a word, or one white-space character.
IsSpace(c) == c \in {" ", "\n"}

\* s.strip()
RECURSIVE strip(_)
strip(s) ==
    IF s = <<>> THEN s
    ELSE IF IsSpace(s[1]) THEN strip(Tail(s))
    ELSE IF IsSpace(s[Len(s)]) THEN strip(SubSeq(s, 1, Len(s) - 1))
    ELSE s

DigitVal(c) == CHOOSE d \in 0..9 : Digit(d) = c

\* the number a digit string denotes
RECURSIVE Value(_)
Value(s) == IF s = <<>> THEN 0 ELSE 10 * Value(SubSeq(s, 1, Len(s) - 1)) + DigitVal(s[Len(s)])

\* s.split(sep), sep one character: the parts between the separators, empty
\* parts kept
split(s, sep) ==
    LET cuts == {k \in DOMAIN s : s[k] = sep}
        n == Cardinality(cuts)
        \* the place of the j-th separator, 0 and Len(s) + 1 standing for the
        \* two ends
        cut(j) == IF j = 0 THEN 0
                  ELSE IF j = n + 1 THEN Len(s) + 1
                  ELSE CHOOSE k \in cuts : Cardinality({q \in cuts : q <= k}) = j
    IN  [j \in 1..(n + 1) |-> SubSeq(s, cut(j - 1) + 1, cut(j) - 1)]

\* s.strip('"')
RECURSIVE strip_quote(_)
strip_quote(s) ==
    IF s = <<>> THEN s
    ELSE IF s[1] = "\"" THEN strip_quote(Tail(s))
    ELSE IF s[Len(s)] = "\"" THEN strip_quote(SubSeq(s, 1, Len(s) - 1))
    ELSE s

\* sep.join(parts)
RECURSIVE join(_, _)
join(parts, sep) ==
    IF parts = <<>> THEN <<>>
    ELSE IF Len(parts) = 1 THEN parts[1]
    ELSE parts[1] \o sep \o join(Tail(parts), sep)

-----------------------------------------------------------------------------
(* WindowCapture.get_window_info *)

None == [found |-> FALSE, proc |-> <<>>, win |-> <<>>, geom |-> <<0, 0, 0, 0>>]

Found(wn) == [found |-> TRUE, proc |-> wn.proc, win |-> wn.win, geom |-> wn.geom]

\* Matches with startswith in the place of ==
Matches_prefix(wn, app, title) ==
    \/ /\ app # <<>>
       /\ Len(app) <= Len(wn.proc)
       /\ SubSeq(lower(wn.proc), 1, Len(app)) = lower(app)
    \/ /\ title # <<>>
       /\ Len(title) <= Len(wn.win)
       /\ SubSeq(lower(wn.win), 1, Len(title)) = lower(title)

Matches(wn, app, title) ==
    \/ app # <<>> /\ lower(wn.proc) = lower(app)
    \/ title # <<>> /\ lower(wn.win) = lower(title)

\* lines 156-163: the first of the parsed windows that matches either selector
first_match(wins, app, title) ==
    IF \E k \in DOMAIN wins : Matches(wins[k], app, title)
    THEN LET k == CHOOSE k \in DOMAIN wins :
                     /\ Matches(wins[k], app, title)
                     /\ \A j \in 1..(k - 1) : ~Matches(wins[j], app, title)
         IN  Found(wins[k])
    ELSE None

\* lines 114-126: the text the script makes of one window, "<proc>" standing
\* for the title of a window that has none
window_item(wn) ==
    join(<<wn.proc,
           IF wn.win = <<>> THEN <<"<">> \o wn.proc \o <<">">> ELSE wn.win,
           str(wn.geom[1]), str(wn.geom[2]), str(wn.geom[3]), str(wn.geom[4])>>,
         <<"|">>)

\* lines 109-135: what osascript prints for the list of these texts: the
\* texts, ", " between them
osascript_output(wins) ==
    join([k \in DOMAIN wins |-> window_item(wins[k])], <<",", " ">>)

\* lines 148-155: the window of one item; an item that has not six parts, or
\* whose numbers do not convert, is passed over
parse_item(item) ==
    LET parts == split(item, "|")
    IN  IF Len(parts) = 6 /\ \A k \in 3..6 : int_ok(parts[k])
        THEN << [proc |-> parts[1], win |-> parts[2],
                 geom |-> <<Value(parts[3]), Value(parts[4]),
                            Value(parts[5]), Value(parts[6])>>] >>
        ELSE <<>>

\* line 146 and the loop of 147: [i.strip().strip('"') for i in ... if i.strip()]
RECURSIVE parse_items(_)
parse_items(items) ==
    IF items = <<>> THEN <<>>
    ELSE (IF strip(items[1]) = <<>> THEN <<>>
          ELSE parse_item(strip_quote(strip(items[1]))))
         \o parse_items(Tail(items))

\* lines 145-155: the list windows that is made of the output of osascript
parse_windows(windows_data) ==
    LET braced == /\ windows_data # <<>>
                  /\ windows_data[1] = "{"
                  /\ windows_data[Len(windows_data)] = "}"
        content == IF braced THEN SubSeq(windows_data, 2, Len(windows_data) - 1)
                   ELSE windows_data
    IN  parse_items(split(content, ","))

\* lines 136-163, for the windows wins that the script lists, in its order
get_window_info(wins, app, title) ==
    LET windows_data == strip(osascript_output(wins))
    IN  IF windows_data = <<>> \/ windows_data = <<"{", "}">> THEN None
        ELSE first_match(parse_windows(windows_data), app, title)

-----------------------------------------------------------------------------
(* WindowCapture.capture_window, with crop_left_third inside it *)

File(path, suffix, whole) == [path |-> path, suffix |-> suffix, whole |-> whole]

\* What one call can do, decided by where (if anywhere) an exception is raised:
\*   "ok"                nothing raises
\*   "screenshot_raises" pyautogui.screenshot / screenshot.save raises
\*   "crop_raises"       crop_left_third raises after saving its .cvtmp.png and
\*                       before the output is written
\*   "save_raises"       the final save raises, the output half written
CaptureOutcomes == {"ok", "screenshot_raises", "crop_raises", "save_raises"}

\* crop_left_third: True and the output written, or False (exception swallowed)
crop_left_third(fs, out_path, outcome) ==
    CASE outcome = "ok" ->
           [ret |-> TRUE, files |-> fs \cup {File(out_path, "", TRUE)}]
      [] outcome = "crop_raises" ->
           [ret |-> FALSE, files |-> fs \cup {File(out_path, ".cvtmp.png", TRUE)}]
      [] OTHER ->
           [ret |-> FALSE,
            files |-> fs \cup {File(out_path, ".cvtmp.png", TRUE), File(out_path, "", FALSE)}]

\* capture_window: the return value of crop_left_third is not looked at
capture_window(fs, out_path, outcome) ==
    IF outcome = "screenshot_raises"
    THEN [ret |-> FALSE, files |-> fs]
    ELSE LET withTmp == fs \cup {File(out_path, ".tmp.png", TRUE)}
             cropped == crop_left_third(withTmp, out_path, outcome)
         IN  [ret |-> TRUE, files |-> cropped.files \ {File(out_path, ".tmp.png", TRUE)}]

\* the rectangle capture_window takes of a window at x, y, w, h (lines 219-222)
Region(g) == <<g[1], g[2], g[3] \div 3, g[4]>>

\* An image: its size and the set of its pixels that are not pure white.
Image(w, h, ink) == [w |-> w, h |-> h, ink |-> ink]

NoImage == Image(0, 0, {})

Max(a, b) == IF a >= b THEN a ELSE b

MinOf(S) == CHOOSE a \in S : \A b \in S : a <= b

MaxOf(S) == CHOOSE a \in S : \A b \in S : a >= b

\* crop with left and right exchanged in what comes out
crop_mirrored(img, x0, y0, x1, y1) ==
    Image(x1 - x0, y1 - y0,
          { <<x1 - 1 - x, y - y0>> : <<x, y>> \in
              { q \in (x0..(x1 - 1)) \X (y0..(y1 - 1)) :
                  q \in img.ink \/ q[1] >= img.w \/ q[2] >= img.h } })

\* img.crop((x0, y0, x1, y1)); what lies outside the image comes out black
crop(img, x0, y0, x1, y1) ==
    Image(x1 - x0, y1 - y0,
          { <<x - x0, y - y0>> : <<x, y>> \in
              { q \in (x0..(x1 - 1)) \X (y0..(y1 - 1)) :
                  q \in img.ink \/ q[1] >= img.w \/ q[2] >= img.h } })

\* bbox with the last row and column of ink left outside
bbox_inclusive(img) ==
    << MinOf({q[1] : q \in img.ink}), MinOf({q[2] : q \in img.ink}),
       MaxOf({q[1] : q \in img.ink}), MaxOf({q[2] : q \in img.ink}) >>

\* lines 193-200, for an image that is not all white: x0, y0, x1, y1 of the
\* pixels that are not white, x1 and y1 one past the last
bbox(img) ==
    << MinOf({q[1] : q \in img.ink}), MinOf({q[2] : q \in img.ink}),
       MaxOf({q[1] : q \in img.ink}) + 1, MaxOf({q[2] : q \in img.ink}) + 1 >>

\* crop_rect with the far edges not held back at the near ones
crop_rect_unclamped(img, m) ==
    LET b == bbox(img)
        y0 == Max(0, b[2] + m[1])
        x0 == Max(0, b[1] + m[3])
    IN  <<x0, y0, b[3] - m[4], b[4] - m[2]>>

\* lines 199-205: the rectangle x0, y0, x1, y1 that is cropped, m being the
\* margins top, bottom, left, right
crop_rect(img, m) ==
    LET b == bbox(img)
        y0 == Max(0, b[2] + m[1])
        y1 == Max(y0, b[4] - m[2])
        x0 == Max(0, b[1] + m[3])
        x1 == Max(x0, b[3] - m[4])
    IN  <<x0, y0, x1, y1>>

\* crop_nonwhite_bbox_with_margin with the margins cut off an all-white image
\* as well
crop_nonwhite_bbox_with_margin_always(img, m) ==
    LET r == IF img.ink = {}
             THEN <<Max(0, m[3]), Max(0, m[1]),
                    Max(Max(0, m[3]), img.w - m[4]), Max(Max(0, m[1]), img.h - m[2])>>
             ELSE crop_rect(img, m)
    IN  crop(img, r[1], r[2], r[3], r[4])

\* lines 190-209: the image that is saved
crop_nonwhite_bbox_with_margin(img, m) ==
    IF img.ink = {} THEN img
    ELSE LET r == crop_rect(img, m)
         IN  crop(img, r[1], r[2], r[3], r[4])

-----------------------------------------------------------------------------
(* batch_capture *)

Sa  == <<"S", "a">>
sa  == <<"s", "a">>
SaP == <<"S", "a", "P">>
Bk  == <<"B", "k">>
bk  == <<"b", "k">>
Pv  == <<"P", "v">>

Win(proc, win, g) == [proc |-> proc, win |-> win, geom |-> g]

WindowLists ==
    { <<>>,
      <<Win(Sa, Bk, <<0, 0, 9, 6>>)>>,
      <<Win(SaP, Pv, <<3, 0, 9, 6>>), Win(Sa, Bk, <<1, 2, 9, 6>>)>> }

BatchSelectors == { <<sa, <<>>>>, <<<<"x">>, bk>> }

\* "r" stands for a key name such as right
NextActions ==
    { <<"r">>,
      <<"1", ",", "2">>,
      <<"1", ",", "x">>,
      <<",">>,
      <<"1", ",", "2", ",", "3">> }

\* first pages next to the step from two digits to three
BigStarts == {98, 99}

Sizes == { <<0, 0>>, <<12, 0>>, <<12, 8>> }

Ev(op, page, ret, path, g) == [op |-> op, page |-> page, ret |-> ret, path |-> path, geom |-> g]

NoGeom == <<0, 0, 0, 0>>

Ev0(op) == Ev(op, 0, TRUE, <<>>, NoGeom)

\* f"{book}_{str(i).zfill(pad_width)}.png"
out_path_of(n, pad) == <<"book", "_">> \o zfill(str(n), pad) \o <<".png">>

\* what set_window_size_and_position can leave behind: the request applied to the
\* windows of the process, applied with a size of the window system's choosing
\* (a minimum size, say), the request failed (swallowed), or the window gone
Resized(wins, proc, wd, ht) ==
    [k \in DOMAIN wins |->
        IF wins[k].proc = proc
        THEN [wins[k] EXCEPT !.geom = <<@[1], @[2],
                                        IF wd # 0 THEN wd ELSE @[3],
                                        IF ht # 0 THEN ht ELSE @[4]>>]
        ELSE wins[k]]

Adjusted(wins, proc, wd, ht) ==
    Resized(wins, proc, IF wd # 0 THEN wd + 3 ELSE 0, IF ht # 0 THEN ht + 1 ELSE 0)

AfterResize(wins, proc, wd, ht) ==
    {Resized(wins, proc, wd, ht), Adjusted(wins, proc, wd, ht), wins, <<>>}

\* no call of capture_window on its own
CaptureIdle ==
    /\ margins = <<0, 0, 0, 0>>
    /\ screen = NoImage
    /\ out_img = NoImage
    /\ cret = "none"

\* no command line
CliIdle ==
    /\ show = FALSE
    /\ exit_code = Running

\* no call of zero_pad_filenames
ZfillIdle ==
    /\ directory = {}
    /\ padding = 0
    /\ fnames = {}
    /\ zpc = "none"
    /\ zcall = 0
    /\ renamed = 0
    /\ original = {}

\* no window of main_gui.py
GuiIdle ==
    /\ worker = 0
    /\ threads = <<>>
    /\ gpc = "none"
    /\ clicks = 0
    /\ glog = 0

\* none of the legacy programs runs
LegacyIdle == ZfillIdle /\ GuiIdle

\* no llm_ocr process exists
OcrIdle ==
    /\ apiKeySet = FALSE
    /\ nfiles = 0
    /\ txt = <<>>
    /\ lock = 0
    /\ procs = {}
    /\ omode = <<>>
    /\ opc = <<>>
    /\ site = <<>>
    /\ oitem = <<>>
    /\ idx = <<>>
    /\ retry_list = <<>>
    /\ rpos = <<>>
    /\ text = <<>>
    /\ inflight = <<>>
    /\ recording = FALSE
    /\ olog = <<>>
    /\ merge = <<>>
    /\ merged = [exists |-> FALSE, s |-> <<>>]
    /\ mpos = 0
    /\ mitem = 0
    /\ run = 0

InitBatch ==
    /\ depsOk \in BOOLEAN
    /\ \E sel \in BatchSelectors : app_name = sel[1] /\ window_label = sel[2]
    /\ start \in (1..MaxStart) \cup BigStarts
    /\ no \in 1..MaxCount
    /\ next_action \in NextActions
    /\ \E sz \in Sizes : width = sz[1] /\ height = sz[2]
    /\ windows \in WindowLists
    /\ pc \in {"check_deps", "main"}
    /\ show \in BOOLEAN
    /\ pc = "check_deps" => ~show
    /\ exit_code = Running
    /\ info = None
    /\ geom = NoGeom
    /\ pad_width = 0
    /\ i = 0
    /\ img_paths = <<>>
    /\ files = {}
    /\ trace = <<>>
    /\ CaptureIdle
    /\ OcrIdle
    /\ LegacyIdle

args == <<depsOk, app_name, window_label, start, no, next_action, width, height>>

\* lines 418-440: the option strings of the add_argument calls of main, in order
ParserOptions ==
    << {"--input-file", "-if"}, {"--input-dir", "-id"}, {"--output-file", "-of"},
       {"--output-dir", "-od"}, {"--merge", "-m"}, {"--lang", "-l"}, {"--tess"},
       {"--log-level"}, {"--app", "-a"}, {"--label", "-L"}, {"--show", "-s"},
       {"--start", "-S"}, {"--no", "-n"}, {"--next", "-N"}, {"--delay", "-d"},
       {"--width", "-w"}, {"--height", "-H"}, {"--top", "-t"}, {"--bottom", "-b"},
       {"--left", "-l"}, {"--right", "-r"} >>

\* argparse (conflict_handler "error"): add_argument raises ArgumentError when
\* one of its option strings is already taken
Conflicting(opts) ==
    \E a \in DOMAIN opts : \E b \in DOMAIN opts : a < b /\ opts[a] \cap opts[b] # {}

\* main, lines 394-441, run as "python shot.py ...": the parser is built before
\* the command line is read.  The exception of add_argument is caught nowhere:
\* the interpreter prints the traceback and exits with status 1.  What follows
\* the parser (lines 441-526) runs only if the parser could be built.
MainParser ==
    /\ pc = "main"
    /\ IF Conflicting(ParserOptions)
       THEN /\ pc' = "exited"
            /\ exit_code' = 1
       ELSE /\ pc' = "parse_args"
            /\ UNCHANGED exit_code
    /\ UNCHANGED <<lvars, ovars, cvars, show, args, windows, info, geom, pad_width, i, img_paths,
                   files, trace>>

\* lines 299-300
CheckDeps ==
    /\ pc = "check_deps"
    /\ pc' = IF depsOk THEN "lookup" ELSE "raised"
    /\ UNCHANGED <<lvars, ovars, cvars, clivars, args, windows, info, geom, pad_width, i, img_paths, files, trace>>

\* lines 301-308
Lookup ==
    /\ pc = "lookup"
    /\ LET r == get_window_info(windows, app_name, window_label)
       IN  /\ info' = r
           /\ trace' = Append(trace, Ev("lookup", 0, r.found, <<>>, r.geom))
           /\ IF ~r.found
              THEN /\ pc' = "raised"
                   /\ geom' = geom
              ELSE /\ geom' = <<r.geom[1], r.geom[2],
                                IF width # 0 THEN width ELSE r.geom[3],
                                IF height # 0 THEN height ELSE r.geom[4]>>
                   /\ pc' = IF width # 0 \/ height # 0 THEN "resize" ELSE "activate"
    /\ UNCHANGED <<lvars, ovars, cvars, clivars, args, windows, pad_width, i, img_paths, files>>

\* line 310
Resize ==
    /\ pc = "resize"
    /\ windows' \in AfterResize(windows, info.proc, width, height)
    /\ trace' = Append(trace, Ev0("resize"))
    /\ pc' = "lookup2"
    /\ UNCHANGED <<lvars, ovars, cvars, clivars, args, info, geom, pad_width, i, img_paths, files>>

\* Lookup2 with the "if not info: raise" of lines 312-313 left out: the run goes on
\* with the geometry it had
Lookup2_unchecked ==
    /\ pc = "lookup2"
    /\ info' = get_window_info(windows, app_name, window_label)
    /\ trace' = Append(trace, Ev("lookup", 0, info'.found, <<>>, info'.geom))
    /\ geom' = IF info'.found THEN info'.geom ELSE geom
    /\ pc' = "activate"
    /\ UNCHANGED <<lvars, ovars, cvars, clivars, args, windows, pad_width, i, img_paths, files>>

\* Lookup2 with line 314 left out: x, y, w, h stay what they were, the
\* overrides included
Lookup2_stale ==
    /\ pc = "lookup2"
    /\ info' = get_window_info(windows, app_name, window_label)
    /\ trace' = Append(trace, Ev("lookup", 0, info'.found, <<>>, info'.geom))
    /\ pc' = IF info'.found THEN "activate" ELSE "raised"
    /\ UNCHANGED <<lvars, ovars, cvars, clivars, args, windows, geom, pad_width, i, img_paths, files>>

\* lines 311-314
Lookup2 ==
    /\ pc = "lookup2"
    /\ info' = get_window_info(windows, app_name, window_label)
    /\ trace' = Append(trace, Ev("lookup", 0, info'.found, <<>>, info'.geom))
    /\ IF ~info'.found
       THEN /\ pc' = "raised"
            /\ geom' = geom
       ELSE /\ geom' = info'.geom
            /\ pc' = "activate"
    /\ UNCHANGED <<lvars, ovars, cvars, clivars, args, windows, pad_width, i, img_paths, files>>

\* Prepare with the names padded to the width of the first page number
Prepare_padstart ==
    /\ pc = "activate"
    /\ trace' = trace \o <<Ev0("activate"), Ev0("makedirs")>>
    /\ pad_width' = Len(str(start))
    /\ img_paths' = <<>>
    /\ i' = start
    /\ pc' = "loop"
    /\ UNCHANGED <<lvars, ovars, cvars, clivars, args, windows, info, geom, files>>

\* lines 318-323
Prepare ==
    /\ pc = "activate"
    /\ trace' = trace \o <<Ev0("activate"), Ev0("makedirs")>>
    /\ pad_width' = Len(str(start + no - 1))
    /\ img_paths' = <<>>
    /\ i' = start
    /\ pc' = "loop"
    /\ UNCHANGED <<lvars, ovars, cvars, clivars, args, windows, info, geom, files>>

\* LoopActivate with the activate_app of line 325 left out: the application
\* is activated by line 318 only
LoopActivate_none ==
    /\ pc = "loop"
    /\ i < start + no
    /\ pc' = "capture"
    /\ UNCHANGED <<lvars, ovars, cvars, clivars, args, windows, info, geom, pad_width, i, img_paths, files, trace>>

\* lines 323-325: the next iteration begins with an activation
LoopActivate ==
    /\ pc = "loop"
    /\ i < start + no
    /\ trace' = Append(trace, Ev("activate", i, TRUE, <<>>, NoGeom))
    /\ pc' = "capture"
    /\ UNCHANGED <<lvars, ovars, cvars, clivars, args, windows, info, geom, pad_width, i, img_paths, files>>

\* lines 329-331
Capture ==
    /\ pc = "capture"
    /\ \E outcome \in CaptureOutcomes :
         LET out_path == out_path_of(i, pad_width)
             r == capture_window(files, out_path, outcome)
         IN  /\ files' = r.files
             /\ trace' = Append(trace, Ev("capture", i, r.ret, out_path,
                                          <<geom[1], geom[2], geom[3] \div 3, geom[4]>>))
             /\ img_paths' = Append(img_paths, out_path)
    /\ pc' = "advance"
    /\ UNCHANGED <<lvars, ovars, cvars, clivars, args, windows, info, geom, pad_width, i>>

\* lines 333-342
Advance ==
    /\ pc = "advance"
    /\ IF has_comma(next_action)
       THEN IF parse_click_ok(next_action)
            THEN /\ trace' = Append(trace, Ev("click", i, TRUE, <<>>, NoGeom))
                 /\ pc' = "loop"
                 /\ i' = i + 1
            ELSE /\ pc' = "raised"
                 /\ UNCHANGED <<trace, i>>
       ELSE /\ trace' = Append(trace, Ev("press", i, TRUE, <<>>, NoGeom))
            /\ pc' = "loop"
            /\ i' = i + 1
    /\ UNCHANGED <<lvars, ovars, cvars, clivars, args, windows, info, geom, pad_width, img_paths, files>>

\* Return with the loop left one page early, as range(start, start + no - 1)
\* would
Return_early ==
    /\ pc = "loop"
    /\ i + 1 >= start + no
    /\ pc' = "done"
    /\ UNCHANGED <<lvars, ovars, cvars, clivars, args, windows, info, geom, pad_width, i, img_paths, files, trace>>

\* lines 343-344
Return ==
    /\ pc = "loop"
    /\ i >= start + no
    /\ pc' = "done"
    /\ UNCHANGED <<lvars, ovars, cvars, clivars, args, windows, info, geom, pad_width, i, img_paths, files, trace>>

NextBatch ==
    \/ MainParser
    \/ CheckDeps
    \/ Lookup
    \/ Resize
    \/ Lookup2
    \/ Prepare
    \/ LoopActivate
    \/ Capture
    \/ Advance
    \/ Return

SpecBatch == InitBatch /\ [][NextBatch]_vars

\* lines 323-344: one step of the loop of batch_capture
LoopStep == LoopActivate \/ Capture \/ Advance \/ Return

\* batch_capture is one thread of straight-line code: in the loop a statement
\* that can run does run, every call of the loop body returning or raising
FairSpecBatch == SpecBatch /\ WF_pc(LoopStep)

-----------------------------------------------------------------------------
(* One call of WindowCapture.get_window_info *)

MaxNameLen == 2

RECURSIVE Strings(_, _)
Strings(chars, n) ==
    IF n = 0 THEN {<<>>}
    ELSE Strings(chars, n - 1)
         \cup { Append(t, c) : t \in Strings(chars, n - 1), c \in chars }

\* process names and selectors: the words of up to MaxNameLen letters
LocNames == Strings({"S", "s", "a"}, MaxNameLen) \ {<<>>}

\* titles, one of them with a comma in it
LocTitles == {Bk, <<"s">>, <<"B", ",", "k">>}

\* the k-th window of the enumeration
LocWin(k, proc, win) == Win(proc, win, <<k, 0, 9, 6>>)

LocWindowLists ==
    { <<>> }
    \cup { <<LocWin(1, p1, t1)>> : p1 \in LocNames, t1 \in LocTitles }
    \cup { <<LocWin(1, p1, t1), LocWin(2, p2, Bk)>> :
             p1 \in LocNames, t1 \in LocTitles, p2 \in LocNames }

\* the call get_window_info(app_name, window_title)
InitLocate ==
    /\ depsOk = TRUE
    /\ app_name \in LocNames \cup {<<>>}
    /\ window_label \in {<<>>, bk, <<"S">>, <<"b", ",", "k">>}
    /\ start = 0
    /\ no = 0
    /\ next_action = <<>>
    /\ width = 0
    /\ height = 0
    /\ windows \in LocWindowLists
    /\ pc = "get_window_info"
    /\ info = None
    /\ geom = NoGeom
    /\ pad_width = 0
    /\ i = 0
    /\ img_paths = <<>>
    /\ files = {}
    /\ trace = <<>>
    /\ CaptureIdle
    /\ CliIdle
    /\ OcrIdle
    /\ LegacyIdle

\* lines 156-163
Locate ==
    /\ pc = "get_window_info"
    /\ info' = get_window_info(windows, app_name, window_label)
    /\ pc' = "located"
    /\ UNCHANGED <<lvars, ovars, cvars, clivars, args, windows, geom, pad_width, i, img_paths,
                   files, trace>>

NextLocate == Locate

SpecLocate == InitLocate /\ [][NextLocate]_vars

-----------------------------------------------------------------------------
(* One call of WindowCapture.capture_window *)

MaxMargin == 3

\* x, y, w, h of the window
CaptureGeoms == { <<0, 0, 9, 3>>, <<1, 2, 7, 2>> }

\* what a region of w by h pixels can show: nothing but white, a block of ink,
\* or two dots
Screens(w, h) ==
    { Image(w, h, {}) }
    \cup { Image(w, h, (a..b) \X (c..d)) :
             <<a, b, c, d>> \in { q \in (0..(w - 1)) \X (0..(w - 1)) \X (0..(h - 1)) \X (0..(h - 1)) :
                                    q[1] <= q[2] /\ q[3] <= q[4] } }
    \cup { Image(w, h, {<<0, h - 1>>, <<w - 1, 0>>}) }

\* the size of the whole screen, as x, y, w, h
FullScreen == <<0, 0, 6, 2>>

\* the values of a margin: argparse takes any int
MarginValues == (0 - 1)..MaxMargin

\* the call capture_window(x, y, w, h, "book_1.png", top, bottom, left, right)
\* or capture_fullscreen("book_1.png", top, bottom, left, right);
\* depsOk stands for "pyautogui was imported"
InitCapture ==
    /\ depsOk \in BOOLEAN
    /\ app_name = <<>>
    /\ window_label = <<>>
    /\ start = 0
    /\ no = 0
    /\ next_action = <<>>
    /\ width = 0
    /\ height = 0
    /\ windows = <<>>
    /\ pc \in {"capture_window", "capture_fullscreen"}
    /\ info = None
    /\ geom \in IF pc = "capture_window" THEN CaptureGeoms ELSE {FullScreen}
    /\ pad_width = 0
    /\ i = 0
    /\ img_paths = <<>>
    /\ files = {}
    /\ trace = <<>>
    /\ margins \in MarginValues \X MarginValues \X MarginValues \X MarginValues
    /\ screen \in IF pc = "capture_window" THEN Screens(Region(geom)[3], geom[4])
                   ELSE Screens(geom[3], geom[4])
    /\ out_img = NoImage
    /\ cret = "none"
    /\ CliIdle
    /\ OcrIdle
    /\ LegacyIdle

\* lines 217-232, crop_left_third and crop_nonwhite_bbox_with_margin inside:
\* the margins are first looked at when the crop rectangle is computed, after
\* the screenshot has been taken and saved
CaptureWindow ==
    /\ pc = "capture_window"
    /\ IF ~depsOk
       THEN /\ cret' = "False"
            /\ UNCHANGED <<files, trace, out_img>>
       ELSE \E outcome \in CaptureOutcomes :
              LET out_path == out_path_of(1, 1)
                  r == capture_window(files, out_path, outcome)
              IN  /\ files' = r.files
                  /\ cret' = IF r.ret THEN "True" ELSE "False"
                  /\ trace' = Append(trace, Ev("screenshot", 0, outcome # "screenshot_raises",
                                               out_path, Region(geom)))
                  /\ out_img' = IF outcome = "ok"
                                THEN crop_nonwhite_bbox_with_margin(screen, margins)
                                ELSE NoImage
    /\ pc' = "returned"
    /\ UNCHANGED <<lvars, ovars, clivars, args, windows, info, geom, pad_width, i, img_paths, margins, screen>>

\* lines 240-253: the screenshot is of the whole screen, and crop_left_third
\* (lines 171-179) cuts nothing off it but what crop_nonwhite_bbox_with_margin
\* cuts
CaptureFullscreen ==
    /\ pc = "capture_fullscreen"
    /\ IF ~depsOk
       THEN /\ cret' = "False"
            /\ UNCHANGED <<files, trace, out_img>>
       ELSE \E outcome \in CaptureOutcomes :
              LET out_path == out_path_of(1, 1)
                  r == capture_window(files, out_path, outcome)
              IN  /\ files' = r.files
                  /\ cret' = IF r.ret THEN "True" ELSE "False"
                  /\ trace' = Append(trace, Ev("screenshot", 0, outcome # "screenshot_raises",
                                               out_path, geom))
                  /\ out_img' = IF outcome = "ok"
                                THEN crop_nonwhite_bbox_with_margin(screen, margins)
                                ELSE NoImage
    /\ pc' = "returned_fullscreen"
    /\ UNCHANGED <<lvars, ovars, clivars, args, windows, info, geom, pad_width, i, img_paths, margins, screen>>

NextCapture ==
    \/ CaptureWindow
    \/ CaptureFullscreen

SpecCapture == InitCapture /\ [][NextCapture]_vars

-----------------------------------------------------------------------------
(* llm_ocr.py: perform_mistral_ocr *)

Word(k) == <<"w1", "w2", "w3", "w4", "w5">>[k]

\* the value None, and a str value
NoneVal == [none |-> TRUE, s |-> <<>>]

Str(s) == [none |-> FALSE, s |-> s]

RATE_LIMIT == Str(<<"RATE_LIMIT">>)

\* Python truthiness of a str-or-None
Truthy(v) == ~v.none /\ v.s # <<>>

\* What the remote API can answer for the image k: 200 with a list of pages
\* (each its markdown), 429, or another status. "raise" stands for an
\* exception of encode_file or requests.post.
Response(status, pages) == [status |-> status, pages |-> pages]

Responses(k) ==
    { Response("200", <<>>),
      Response("200", << <<"RATE_LIMIT">> >>),
      Response("200", << <<Word(k)>>, <<Word(k), "\n">> >>),
      Response("429", <<>>),
      Response("500", <<>>),
      Response("raise", <<>>) }

\* all_text += page.get("markdown", "") + "\n\n", for each page
RECURSIVE all_text(_)
all_text(pages) ==
    IF pages = <<>> THEN <<>>
    ELSE pages[1] \o <<"\n", "\n">> \o all_text(Tail(pages))

\* lines 64-75: the value returned for an answer that is not an exception
perform_mistral_ocr(resp) ==
    CASE resp.status = "200" -> Str(strip(all_text(resp.pages)))
      [] resp.status = "429" -> RATE_LIMIT
      [] OTHER -> NoneVal

-----------------------------------------------------------------------------
(* llm_ocr.py: main *)

MaxItems == 3
MaxSharedItems == 1
NumProcs == 2
MaxRuns == 2

Absent == [exists |-> FALSE, s |-> <<>>]

Written(s) == [exists |-> TRUE, s |-> s]

OEv(op, p, k, pass, status, ret) ==
    [op |-> op, proc |-> p, item |-> k, pass |-> pass, status |-> status, ret |-> ret]

Log(e) == IF recording THEN Append(olog, e) ELSE olog

BatchIdle ==
    /\ depsOk = FALSE
    /\ app_name = <<>>
    /\ window_label = <<>>
    /\ start = 0
    /\ no = 0
    /\ next_action = <<>>
    /\ width = 0
    /\ height = 0
    /\ windows = <<>>
    /\ pc = "idle"
    /\ info = None
    /\ geom = NoGeom
    /\ pad_width = 0
    /\ i = 0
    /\ img_paths = <<>>
    /\ files = {}
    /\ trace = <<>>
    /\ CaptureIdle
    /\ CliIdle

\* the processes ps, each in a mode of its own, over one directory of n images
\* of which some already have their .txt; ms are the values --merge may take
InitOcr(ps, n, rec, ms) ==
    /\ BatchIdle
    /\ LegacyIdle
    /\ apiKeySet \in BOOLEAN
    /\ nfiles = n
    /\ txt \in [1..n -> {Absent} \cup {Written(<<Word(k)>>) : k \in 1..n}]
    /\ \A k \in 1..n : txt[k].exists => txt[k].s = <<Word(k)>>
    /\ lock = 0
    /\ procs = ps
    /\ omode \in [ps -> {"file", "dir"}]
    /\ opc = [p \in ps |-> "start"]
    /\ site = [p \in ps |-> "none"]
    /\ oitem \in [ps -> 1..n]
    /\ \A p \in ps : omode[p] = "dir" => oitem[p] = 1
    /\ idx = [p \in ps |-> 1]
    /\ retry_list = [p \in ps |-> <<>>]
    /\ rpos = [p \in ps |-> 1]
    /\ text = [p \in ps |-> NoneVal]
    /\ inflight = [p \in ps |-> FALSE]
    /\ recording = rec
    /\ olog = <<>>
    /\ merge \in [ps -> ms]
    /\ \A p \in ps : omode[p] = "file" => ~merge[p]
    /\ merged = Absent
    /\ mpos \in 0..n
    /\ (\A p \in ps : ~merge[p]) => mpos = 0
    /\ mitem \in {0, 1}
    /\ mitem # 0 => mpos = mitem - 1 /\ \E p \in ps : merge[p]
    /\ run = 1

\* one run, its calls and sleeps recorded
InitOcrRun == \E n \in 1..MaxItems : InitOcr({1}, n, TRUE, BOOLEAN)

\* several runs at once, none of them merging
InitOcrProcs == \E n \in 1..MaxSharedItems : InitOcr(1..NumProcs, n, FALSE, {FALSE})

\* lines 93-95 and 103-110
Start(p) ==
    /\ p \in procs
    /\ opc[p] = "start"
    /\ IF omode[p] = "file"
       THEN /\ site' = [site EXCEPT ![p] = "file"]
            /\ opc' = [opc EXCEPT ![p] = "call"]
       ELSE /\ site' = [site EXCEPT ![p] = "main"]
            /\ opc' = [opc EXCEPT ![p] = "main"]
    /\ UNCHANGED <<lvars, bvars, cvars, clivars, mvars, apiKeySet, nfiles, txt, lock, procs, omode, oitem, idx,
                   retry_list, rpos, text, inflight, recording, olog>>

\* MainNext without the test of txt_path.exists()
MainNext_noskip(p) ==
    /\ p \in procs
    /\ opc[p] = "main"
    /\ idx[p] <= nfiles
    /\ oitem' = [oitem EXCEPT ![p] = idx[p]]
    /\ opc' = [opc EXCEPT ![p] = "acquire"]
    /\ UNCHANGED <<lvars, bvars, cvars, clivars, mvars, apiKeySet, nfiles, txt, lock, procs, omode, site, idx,
                   retry_list, rpos, text, inflight, recording, olog>>

\* lines 111-115: the next png, skipped when its .txt exists
MainNext(p) ==
    /\ p \in procs
    /\ opc[p] = "main"
    /\ idx[p] <= nfiles
    /\ oitem' = [oitem EXCEPT ![p] = idx[p]]
    /\ IF txt[idx[p]].exists
       THEN /\ idx' = [idx EXCEPT ![p] = @ + 1]
            /\ olog' = Log(OEv("skip", p, idx[p], "main", "", NoneVal))
            /\ UNCHANGED opc
       ELSE /\ opc' = [opc EXCEPT ![p] = "acquire"]
            /\ UNCHANGED <<idx, olog>>
    /\ UNCHANGED <<lvars, bvars, cvars, clivars, mvars, apiKeySet, nfiles, txt, lock, procs, omode, site,
                   retry_list, rpos, text, inflight, recording>>

\* "with lock:" entered, lines 116 and 131
Acquire(p) ==
    /\ p \in procs
    /\ opc[p] = "acquire"
    /\ lock = 0
    /\ lock' = p
    /\ opc' = [opc EXCEPT ![p] = "call"]
    /\ UNCHANGED <<lvars, bvars, cvars, clivars, mvars, apiKeySet, nfiles, txt, procs, omode, site, oitem, idx,
                   retry_list, rpos, text, inflight, recording, olog>>

\* where a process goes when perform_mistral_ocr has returned
AfterCall(p) == IF site[p] = "file" THEN "handle_file" ELSE "release"

\* where it goes when perform_mistral_ocr has raised
AfterRaise(p) == IF site[p] = "file" THEN "crashed" ELSE "release_exc"

\* lines 41-63: no key, no request; else the request is sent
BeginCall(p) ==
    /\ p \in procs
    /\ opc[p] = "call"
    /\ IF ~apiKeySet
       THEN /\ text' = [text EXCEPT ![p] = NoneVal]
            /\ opc' = [opc EXCEPT ![p] = AfterCall(p)]
            /\ olog' = Log(OEv("call", p, oitem[p], site[p], "nokey", NoneVal))
            /\ UNCHANGED inflight
       ELSE /\ inflight' = [inflight EXCEPT ![p] = TRUE]
            /\ opc' = [opc EXCEPT ![p] = "wait"]
            /\ UNCHANGED <<text, olog>>
    /\ UNCHANGED <<lvars, bvars, cvars, clivars, mvars, apiKeySet, nfiles, txt, lock, procs, omode, site, oitem, idx,
                   retry_list, rpos, recording>>

\* lines 59-75: the answer arrives, or the call raises
EndCall(p) ==
    /\ p \in procs
    /\ opc[p] = "wait"
    /\ inflight' = [inflight EXCEPT ![p] = FALSE]
    /\ \E resp \in Responses(oitem[p]) :
         IF resp.status = "raise"
         THEN /\ opc' = [opc EXCEPT ![p] = AfterRaise(p)]
              /\ olog' = Log(OEv("call", p, oitem[p], site[p], "raise", NoneVal))
              /\ UNCHANGED text
         ELSE /\ text' = [text EXCEPT ![p] = perform_mistral_ocr(resp)]
              /\ opc' = [opc EXCEPT ![p] = AfterCall(p)]
              /\ olog' = Log(OEv("call", p, oitem[p], site[p], resp.status,
                                 perform_mistral_ocr(resp)))
    /\ UNCHANGED <<lvars, bvars, cvars, clivars, mvars, apiKeySet, nfiles, txt, lock, procs, omode, site, oitem, idx,
                   retry_list, rpos, recording>>

\* Release with the lock kept when the block is left by an exception
Release_leaky(p) ==
    /\ p \in procs
    /\ opc[p] \in {"release", "release_exc"}
    /\ lock' = IF opc[p] = "release_exc" THEN lock ELSE 0
    /\ opc' = [opc EXCEPT ![p] =
                 IF opc[p] = "release_exc" THEN "crashed"
                 ELSE IF site[p] = "main" THEN "handle_main" ELSE "handle_retry"]
    /\ UNCHANGED <<lvars, bvars, cvars, clivars, mvars, apiKeySet, nfiles, txt, procs, omode, site, oitem, idx,
                   retry_list, rpos, text, inflight, recording, olog>>

\* "with lock:" left, by return or by exception
Release(p) ==
    /\ p \in procs
    /\ opc[p] \in {"release", "release_exc"}
    /\ lock' = 0
    /\ opc' = [opc EXCEPT ![p] =
                 IF opc[p] = "release_exc" THEN "crashed"
                 ELSE IF site[p] = "main" THEN "handle_main" ELSE "handle_retry"]
    /\ UNCHANGED <<lvars, bvars, cvars, clivars, mvars, apiKeySet, nfiles, txt, procs, omode, site, oitem, idx,
                   retry_list, rpos, text, inflight, recording, olog>>

\* lines 118-125, the pacing sleep included
HandleMain(p) ==
    /\ p \in procs
    /\ opc[p] = "handle_main"
    /\ IF text[p] = RATE_LIMIT
       THEN /\ retry_list' = [retry_list EXCEPT ![p] = Append(@, oitem[p])]
            /\ olog' = Log(OEv("pace", p, oitem[p], "main", "", NoneVal))
            /\ UNCHANGED txt
       ELSE IF Truthy(text[p])
       THEN /\ txt' = [txt EXCEPT ![oitem[p]] = Written(text[p].s)]
            /\ olog' = IF recording
                       THEN olog \o <<OEv("write", p, oitem[p], "main", "", text[p]),
                                      OEv("pace", p, oitem[p], "main", "", NoneVal)>>
                       ELSE olog
            /\ UNCHANGED retry_list
       ELSE /\ olog' = Log(OEv("pace", p, oitem[p], "main", "", NoneVal))
            /\ UNCHANGED <<txt, retry_list>>
    /\ idx' = [idx EXCEPT ![p] = @ + 1]
    /\ opc' = [opc EXCEPT ![p] = "main"]
    /\ UNCHANGED <<lvars, bvars, cvars, clivars, mvars, apiKeySet, nfiles, lock, procs, omode, site, oitem,
                   rpos, text, inflight, recording>>

\* AfterMain with the back-off taken whether or not an item was deferred
AfterMain_always(p) ==
    /\ p \in procs
    /\ opc[p] = "main"
    /\ idx[p] > nfiles
    /\ olog' = Log(OEv("backoff", p, 0, "retry", "", NoneVal))
    /\ site' = [site EXCEPT ![p] = "retry"]
    /\ rpos' = [rpos EXCEPT ![p] = 1]
    /\ opc' = [opc EXCEPT ![p] = "retry"]
    /\ UNCHANGED <<lvars, bvars, cvars, clivars, mvars, apiKeySet, nfiles, txt, lock, procs, omode, oitem, idx,
                   retry_list, text, inflight, recording>>

\* lines 126-128: the main loop is over; the back-off, if anything was deferred
AfterMain(p) ==
    /\ p \in procs
    /\ opc[p] = "main"
    /\ idx[p] > nfiles
    /\ IF retry_list[p] # <<>>
       THEN /\ olog' = Log(OEv("backoff", p, 0, "retry", "", NoneVal))
            /\ site' = [site EXCEPT ![p] = "retry"]
            /\ rpos' = [rpos EXCEPT ![p] = 1]
            /\ opc' = [opc EXCEPT ![p] = "retry"]
       ELSE /\ opc' = [opc EXCEPT ![p] = "merge"]
            /\ UNCHANGED <<olog, site, rpos>>
    /\ UNCHANGED <<lvars, bvars, cvars, clivars, mvars, apiKeySet, nfiles, txt, lock, procs, omode, oitem, idx,
                   retry_list, text, inflight, recording>>

\* lines 129-130: the next deferred png, or the end of the retry loop
RetryNext(p) ==
    /\ p \in procs
    /\ opc[p] = "retry"
    /\ IF rpos[p] <= Len(retry_list[p])
       THEN /\ oitem' = [oitem EXCEPT ![p] = retry_list[p][rpos[p]]]
            /\ opc' = [opc EXCEPT ![p] = "acquire"]
       ELSE /\ opc' = [opc EXCEPT ![p] = "merge"]
            /\ UNCHANGED oitem
    /\ UNCHANGED <<lvars, bvars, cvars, clivars, mvars, apiKeySet, nfiles, txt, lock, procs, omode, site, idx,
                   retry_list, rpos, text, inflight, recording, olog>>

\* lines 133-139: no sleep here
HandleRetry(p) ==
    /\ p \in procs
    /\ opc[p] = "handle_retry"
    /\ IF Truthy(text[p]) /\ text[p] # RATE_LIMIT
       THEN /\ txt' = [txt EXCEPT ![oitem[p]] = Written(text[p].s)]
            /\ olog' = Log(OEv("write", p, oitem[p], "retry", "", text[p]))
       ELSE UNCHANGED <<txt, olog>>
    /\ rpos' = [rpos EXCEPT ![p] = @ + 1]
    /\ opc' = [opc EXCEPT ![p] = "retry"]
    /\ UNCHANGED <<lvars, bvars, cvars, clivars, mvars, apiKeySet, nfiles, lock, procs, omode, site, oitem, idx,
                   retry_list, text, inflight, recording>>

\* lines 97-101
HandleFile(p) ==
    /\ p \in procs
    /\ opc[p] = "handle_file"
    /\ IF Truthy(text[p])
       THEN /\ txt' = [txt EXCEPT ![oitem[p]] = Written(text[p].s)]
            /\ olog' = Log(OEv("write", p, oitem[p], "file", "", text[p]))
       ELSE UNCHANGED <<txt, olog>>
    /\ opc' = [opc EXCEPT ![p] = "exit"]
    /\ UNCHANGED <<lvars, bvars, cvars, clivars, mvars, apiKeySet, nfiles, lock, procs, omode, site, oitem, idx,
                   retry_list, rpos, text, inflight, recording>>

\* line 147: what one file of all_txts adds to the merged file
Entry(s) == strip(s) \o <<"\n", "\n">>

\* the entries of those of the image outputs a..b that exist, in sorted order
RECURSIVE Entries(_, _, _)
Entries(t, a, b) ==
    IF a > b THEN <<>>
    ELSE (IF t[a].exists THEN Entry(t[a].s) ELSE <<>>) \o Entries(t, a + 1, b)

\* lines 140-149.  glob('*.txt') is taken before the merged file is opened, so
\* a merged file left by an earlier run is one of all_txts, at its place in the
\* sorted order.  It is truncated by open(merged_path, 'w') before it is read:
\* the read returns what the writer has flushed by then, nothing or the entries
\* written so far.  When an image is named {dirname}_merged.png, merged_path
\* is the path of the output of that image: the file is one and the same, kept
\* in txt.
Merge(p) ==
    /\ p \in procs
    /\ opc[p] = "merge"
    /\ IF merge[p] /\ (merged.exists \/ \E k \in 1..nfiles : txt[k].exists)
       THEN \E flushed \in BOOLEAN :
              LET before == Entries(txt, 1, mpos)
                  own == IF flushed THEN before ELSE <<>>
                  there == IF mitem = 0 THEN merged.exists ELSE txt[mitem].exists
                  self == IF there THEN Entry(own) ELSE <<>>
                  rest == Entries(txt, IF mitem = 0 THEN mpos + 1 ELSE mitem + 1, nfiles)
                  written == Written(before \o self \o rest)
              IN  IF mitem = 0
                  THEN merged' = written /\ UNCHANGED txt
                  ELSE txt' = [txt EXCEPT ![mitem] = written] /\ UNCHANGED merged
       ELSE UNCHANGED <<merged, txt>>
    /\ opc' = [opc EXCEPT ![p] = "exit"]
    /\ UNCHANGED <<lvars, bvars, cvars, clivars, apiKeySet, nfiles, lock, procs, omode, site, oitem, idx,
                   retry_list, rpos, text, inflight, recording, olog, merge, mpos, mitem, run>>

\* the command is run again over the same directory, once the run before it
\* has ended; olog is the record of the run at hand only
Rerun(p) ==
    /\ p \in procs
    /\ opc[p] \in {"exit", "crashed"}
    /\ run < MaxRuns
    /\ run' = run + 1
    /\ opc' = [opc EXCEPT ![p] = "start"]
    /\ site' = [site EXCEPT ![p] = "none"]
    /\ oitem' = [oitem EXCEPT ![p] = IF omode[p] = "dir" THEN 1 ELSE @]
    /\ idx' = [idx EXCEPT ![p] = 1]
    /\ retry_list' = [retry_list EXCEPT ![p] = <<>>]
    /\ rpos' = [rpos EXCEPT ![p] = 1]
    /\ text' = [text EXCEPT ![p] = NoneVal]
    /\ olog' = <<>>
    /\ UNCHANGED <<lvars, bvars, cvars, clivars, apiKeySet, nfiles, txt, lock, procs, omode, inflight,
                   recording, merge, merged, mpos, mitem>>

AllProcs == 1..NumProcs

NextOcr ==
    \/ \E p \in AllProcs : Start(p)
    \/ \E p \in AllProcs : MainNext(p)
    \/ \E p \in AllProcs : Acquire(p)
    \/ \E p \in AllProcs : BeginCall(p)
    \/ \E p \in AllProcs : EndCall(p)
    \/ \E p \in AllProcs : Release(p)
    \/ \E p \in AllProcs : HandleMain(p)
    \/ \E p \in AllProcs : AfterMain(p)
    \/ \E p \in AllProcs : RetryNext(p)
    \/ \E p \in AllProcs : HandleRetry(p)
    \/ \E p \in AllProcs : HandleFile(p)
    \/ \E p \in AllProcs : Merge(p)

NextOcrRun ==
    \/ NextOcr
    \/ \E p \in AllProcs : Rerun(p)

SpecOcrRun == InitOcrRun /\ [][NextOcrRun]_vars

SpecOcrProcs == InitOcrProcs /\ [][NextOcr]_vars

-----------------------------------------------------------------------------
(* legacy/zfill.py: zero_pad_filenames *)

MaxFiles == 3
MaxPadding == 3

\* FILENAME_RE, line 6: ^(?P<book>.+)_(?P<page>\d+)\.(?P<ext>[^.]+)$ .  The
\* places of the "_" after which the rest of the name is digits, a dot and an
\* extension without a dot, a book of one character or more before it
Splits(fname) ==
    { u \in 2..Len(fname) :
        /\ fname[u] = "_"
        /\ \E d \in (u + 2)..(Len(fname) - 1) :
              /\ fname[d] = "."
              /\ \A k \in (u + 1)..(d - 1) : IsDigit(fname[k])
              /\ \A k \in (d + 1)..Len(fname) : fname[k] # "." }

\* the dot that ends the page number which begins after the place u
DotAfter(fname, u) == CHOOSE d \in (u + 2)..Len(fname) :
                         fname[d] = "." /\ \A k \in (u + 1)..(d - 1) : fname[k] # "."

\* FILENAME_RE.match(fname): (.+) is greedy, the book runs to the last place
\* that lets the rest match
FILENAME_RE_match(fname) ==
    IF Splits(fname) = {} THEN [matched |-> FALSE, book |-> <<>>, page |-> <<>>, ext |-> <<>>]
    ELSE LET u == CHOOSE a \in Splits(fname) : \A b \in Splits(fname) : b <= a
             d == DotAfter(fname, u)
         IN  [matched |-> TRUE,
              book |-> SubSeq(fname, 1, u - 1),
              page |-> SubSeq(fname, u + 1, d - 1),
              ext |-> SubSeq(fname, d + 1, Len(fname))]

\* lines 12-16: f"{book}_{new_page}.{ext}" for a name that matches, the name
\* itself for one that does not
new_fname(fname, pad) ==
    LET match == FILENAME_RE_match(fname)
    IN  IF match.matched
        THEN match.book \o <<"_">> \o zfill(match.page, pad) \o <<".">> \o match.ext
        ELSE fname

\* os.rename(src, dst) on the files fs: the file src is now under the name
\* dst, and a file that was under that name is gone (POSIX rename replaces it)
rename(fs, src, dst) ==
    { f \in fs : f.name # src /\ f.name # dst }
        \cup { [name |-> dst, content |-> f.content] : f \in { g \in fs : g.name = src } }

\* file names a directory of captures can hold
FileNames ==
    { <<"b", "_", "1", ".", "p">>,
      <<"b", "_", "0", "1", ".", "p">>,
      <<"b", "_", "2", ".", "p">>,
      <<"b", "_", "1", "0", ".", "p">>,
      <<"b", "_", "1", "_", "1", ".", "p">>,
      <<"b", ".", "p">> }

\* a file whose content is its own: what was written under the name it has
\* at the start
FileOf(fname) == [name |-> fname, content |-> fname]

InitZfill ==
    /\ BatchIdle
    /\ OcrIdle
    /\ GuiIdle
    /\ \E ns \in SUBSET FileNames :
          /\ Cardinality(ns) \in 1..MaxFiles
          /\ directory = { FileOf(n) : n \in ns }
    /\ padding \in 0..MaxPadding
    /\ fnames = {}
    /\ zpc = "call"
    /\ zcall = 1
    /\ renamed = 0
    /\ original = directory

\* line 9: os.listdir(directory) is read once, before the loop
ListDir ==
    /\ zpc = "call"
    /\ fnames' = { f.name : f \in directory }
    /\ renamed' = 0
    /\ zpc' = "loop"
    /\ UNCHANGED <<bvars, cvars, clivars, ovars, gvars, directory, padding, zcall, original>>

\* lines 9-21: one pass of the loop, for a name of the listing in whatever
\* order os.listdir gave it
ZeroPad ==
    /\ zpc = "loop"
    /\ \E fname \in fnames :
          LET new == new_fname(fname, padding)
          IN  /\ fnames' = fnames \ {fname}
              /\ IF fname # new
                 THEN /\ directory' = rename(directory, fname, new)
                      /\ renamed' = renamed + 1
                 ELSE UNCHANGED <<directory, renamed>>
    /\ UNCHANGED <<bvars, cvars, clivars, ovars, gvars, padding, zpc, zcall, original>>

\* the loop is over: zero_pad_filenames returns
ZfillReturn ==
    /\ zpc = "loop"
    /\ fnames = {}
    /\ zpc' = "done"
    /\ UNCHANGED <<bvars, cvars, clivars, ovars, gvars, directory, padding, fnames, zcall, renamed, original>>

\* lines 23-31: zfill.py is run a second time with the same arguments
ZfillAgain ==
    /\ zpc = "done"
    /\ zcall = 1
    /\ zcall' = 2
    /\ zpc' = "call"
    /\ UNCHANGED <<bvars, cvars, clivars, ovars, gvars, directory, padding, fnames, renamed, original>>

NextZfill == ListDir \/ ZeroPad \/ ZfillReturn \/ ZfillAgain

SpecZfill == InitZfill /\ [][NextZfill]_vars

-----------------------------------------------------------------------------
(* legacy/main_gui.py: ShotGui.start_workflow and Worker.run *)

MaxWorkers == 2
MaxClicks == 3

\* the stages of Worker.run, in the order of its if statements
Stages == <<"capture", "pdf", "ocr">>

\* get_params, lines 199-222, as far as Worker.run looks at it: 'capture' is
\* always True, 'pdf' and 'ocr' are the check boxes
Params(pdf, ocr) == [capture |-> TRUE, pdf |-> pdf, ocr |-> ocr]

\* a Worker: its params, the place of run (a stage 1..3, 4 for the line
\* finished_signal.emit(), 5 once run has returned), QThread.isRunning(),
\* the subprocesses it has run with their exit codes, and the signals
\* finished_signal and error_signal it has emitted
Worker(params) ==
    [params |-> params, at |-> 1, running |-> TRUE, ran |-> <<>>, signals |-> <<>>]

\* what subprocess.run can do: the program exits with 0, exits with another
\* code, or subprocess.run raises (python3 is not found, say)
StageOutcomes == {"zero", "nonzero", "raise"}

InitGui ==
    /\ BatchIdle
    /\ OcrIdle
    /\ ZfillIdle
    /\ worker = 0
    /\ threads = <<>>
    /\ gpc = "idle"
    /\ clicks = 0
    /\ glog = 0

\* Click with the test of lines 225-227 left out
Click_unguarded ==
    /\ gpc = "idle"
    /\ clicks < MaxClicks
    /\ clicks' = clicks + 1
    /\ gpc' = "create"
    /\ UNCHANGED <<bvars, cvars, clivars, ovars, zvars, worker, threads, glog>>

\* lines 224-227: runButton is clicked, start_workflow begins on the GUI thread
Click ==
    /\ gpc = "idle"
    /\ clicks < MaxClicks
    /\ clicks' = clicks + 1
    /\ IF worker # 0 /\ threads[worker].running
       THEN /\ glog' = glog + 1
            /\ gpc' = "idle"
       ELSE /\ gpc' = "create"
            /\ UNCHANGED glog
    /\ UNCHANGED <<bvars, cvars, clivars, ovars, zvars, worker, threads>>

\* lines 228-234: the Worker is made of the params of the moment and started;
\* isRunning() is True from the return of start()
StartWorker ==
    /\ gpc = "create"
    /\ Len(threads) < MaxWorkers
    /\ \E pdf \in BOOLEAN : \E ocr \in BOOLEAN :
          threads' = Append(threads, Worker(Params(pdf, ocr)))
    /\ worker' = Len(threads) + 1
    /\ gpc' = "idle"
    /\ UNCHANGED <<bvars, cvars, clivars, ovars, zvars, clicks, glog>>

\* RunStage with the 'return' after error_signal.emit left out: run goes on
\* to the next stage
RunStage_goon(t) ==
    /\ t \in DOMAIN threads
    /\ threads[t].at \in 1..3
    /\ LET th == threads[t]
           stage == Stages[th.at]
       IN  IF ~th.params[stage]
           THEN threads' = [threads EXCEPT ![t].at = @ + 1]
           ELSE \E outcome \in StageOutcomes :
                  threads' = [threads EXCEPT
                      ![t].ran = Append(@, [stage |-> stage, outcome |-> outcome]),
                      ![t].signals = IF outcome = "zero" THEN @ ELSE Append(@, "error"),
                      ![t].at = @ + 1]
    /\ UNCHANGED <<bvars, cvars, clivars, ovars, zvars, worker, gpc, clicks, glog>>

\* lines 33-86: one 'if self.params[...]' of run with its subprocess; an exit
\* code other than 0 emits error_signal and returns, an exception is caught
\* at line 88, which emits error_signal
RunStage(t) ==
    /\ t \in DOMAIN threads
    /\ threads[t].at \in 1..3
    /\ LET th == threads[t]
           stage == Stages[th.at]
       IN  IF ~th.params[stage]
           THEN threads' = [threads EXCEPT ![t].at = @ + 1]
           ELSE \E outcome \in StageOutcomes :
                  threads' = [threads EXCEPT
                      ![t].ran = Append(@, [stage |-> stage, outcome |-> outcome]),
                      ![t].signals = IF outcome = "zero" THEN @ ELSE Append(@, "error"),
                      ![t].at = IF outcome = "zero" THEN @ + 1 ELSE 5]
    /\ UNCHANGED <<bvars, cvars, clivars, ovars, zvars, worker, gpc, clicks, glog>>

\* line 87: every stage is behind, finished_signal is emitted and run returns
Finish(t) ==
    /\ t \in DOMAIN threads
    /\ threads[t].at = 4
    /\ threads' = [threads EXCEPT ![t].signals = Append(@, "finished"), ![t].at = 5]
    /\ UNCHANGED <<bvars, cvars, clivars, ovars, zvars, worker, gpc, clicks, glog>>

\* run has returned and the thread ends: isRunning() is False from here on
ThreadEnds(t) ==
    /\ t \in DOMAIN threads
    /\ threads[t].at = 5
    /\ threads[t].running
    /\ threads' = [threads EXCEPT ![t].running = FALSE]
    /\ UNCHANGED <<bvars, cvars, clivars, ovars, zvars, worker, gpc, clicks, glog>>

AllWorkers == 1..MaxWorkers

NextGui ==
    \/ Click
    \/ StartWorker
    \/ \E t \in AllWorkers : RunStage(t)
    \/ \E t \in AllWorkers : Finish(t)
    \/ \E t \in AllWorkers : ThreadEnds(t)

SpecGui == InitGui /\ [][NextGui]_vars

-----------------------------------------------------------------------------
(* Properties of batch_capture *)

Events(ops) == SelectSeq(trace, LAMBDA e : e.op \in ops)

Captures == Events({"capture"})

Advances == Events({"click", "press"})

RECURSIVE Pow10(_)
Pow10(n) == IF n = 0 THEN 1 ELSE 10 * Pow10(n - 1)

\* the number of decimal digits of n >= 1
DigitsOf(n) == CHOOSE w \in 1..6 : Pow10(w - 1) <= n /\ n < Pow10(w)

\* the digits between "book_" and ".png"
Index(path) == SubSeq(path, 3, Len(path) - 1)

WellNamed(path, n) ==
    /\ Len(path) >= 4
    /\ path[1] = "book" /\ path[2] = "_" /\ path[Len(path)] = ".png"
    /\ \A k \in DOMAIN Index(path) : IsDigit(Index(path)[k])
    /\ Len(Index(path)) = DigitsOf(start + no - 1)
    /\ Value(Index(path)) = n

\* C1: the k-th capture of a run writes to {book}_{start+k-1}.png, the index
\* zero-padded to the number of digits of start+no-1; the indices increase
\* strictly, and a run that returns has made exactly no captures.
C1_PageNames ==
    /\ \A k \in DOMAIN Captures : WellNamed(Captures[k].path, start + k - 1)
    /\ \A k \in DOMAIN Captures : \A j \in DOMAIN Captures :
          j < k => Value(Index(Captures[j].path)) < Value(Index(Captures[k].path))
    /\ pc = "done" => Len(Captures) = no

C1_Witness ==
    /\ pc = "done" /\ start = 8 /\ no = 3
    /\ [k \in 1..3 |-> Captures[k].path] =
          << <<"book", "_", "0", "8", ".png">>,
             <<"book", "_", "0", "9", ".png">>,
             <<"book", "_", "1", "0", ".png">> >>

\* C2: the returned list holds exactly the paths of the pages whose capture
\* returned True, in page order.
C2_ReturnsSuccessfulOnly ==
    pc = "done" =>
        img_paths = [k \in DOMAIN SelectSeq(Captures, LAMBDA e : e.ret) |->
                        SelectSeq(Captures, LAMBDA e : e.ret)[k].path]

\* C3: after a capture that returned False, no advance action and no further
\* capture is issued.
C3_CaptureFailureIsFatal ==
    \A k \in DOMAIN trace :
        (trace[k].op = "capture" /\ ~trace[k].ret) =>
            \A j \in DOMAIN trace :
                j > k => trace[j].op \notin {"capture", "click", "press"}

Malformed(s) == has_comma(s) /\ ~parse_click_ok(s)

\* C4: a run whose next_action is a malformed "x,y" captures no page, writes
\* no file and issues no click or key-press.
C4_MalformedAbortsFirst ==
    Malformed(next_action) =>
        /\ files = {}
        /\ Len(Captures) = 0
        /\ Len(Advances) = 0

\* C5: a run over no pages issues no-1 advance actions, none of them after the
\* capture of the last page start+no-1.
C5_NoAdvanceAfterLastPage ==
    /\ \A k \in DOMAIN Advances : Advances[k].page < start + no - 1
    /\ pc = "done" => Len(Advances) = no - 1

\* C6: once a get_window_info call has returned None (the first one, or the one
\* after the resize) the run has raised, and it has activated nothing,
\* captured nothing, written nothing and advanced nothing.
C6_NotFoundAborts ==
    (\E k \in DOMAIN trace : trace[k].op = "lookup" /\ ~trace[k].ret) =>
        /\ pc = "raised"
        /\ Len(Events({"activate", "makedirs", "capture", "click", "press"})) = 0
        /\ files = {}
        /\ img_paths = <<>>

C6_Witness ==
    /\ pc = "raised"
    /\ Len(trace) = 3
    /\ trace[1].op = "lookup" /\ trace[1].ret
    /\ trace[2].op = "resize"
    /\ trace[3].op = "lookup" /\ ~trace[3].ret

ResizeRequested == width # 0 \/ height # 0

IsAdvance(e) == e.op \in {"click", "press"}

\* C17: the side effect issued just before a capture is the activation for
\* that page, and for every page but the first the one before that is the
\* advance of the page before; the side effect issued just before an advance
\* is the capture of its page.
C17_ActivateCaptureAdvanceOrder ==
    \A c \in DOMAIN trace :
        /\ trace[c].op = "capture" =>
              /\ c > 1
              /\ trace[c - 1].op = "activate" /\ trace[c - 1].page = trace[c].page
              /\ trace[c].page > start =>
                    /\ c > 2
                    /\ IsAdvance(trace[c - 2])
                    /\ trace[c - 2].page = trace[c].page - 1
        /\ IsAdvance(trace[c]) =>
              /\ c > 1
              /\ trace[c - 1].op = "capture" /\ trace[c - 1].page = trace[c].page

\* three pages from 9: activate, capture, click, three times over
C17_Witness ==
    /\ pc = "done" /\ start = 9 /\ no = 3 /\ ~ResizeRequested
    /\ Len(trace) = 12
    /\ \A n \in 0..2 :
          /\ trace[4 + 3 * n].op = "activate" /\ trace[4 + 3 * n].page = 9 + n
          /\ trace[5 + 3 * n].op = "capture" /\ trace[5 + 3 * n].page = 9 + n
          /\ trace[6 + 3 * n].op = "click" /\ trace[6 + 3 * n].page = 9 + n

\* C18: a file under the name of a page is there whole: a capture_window
\* that raised or whose crop failed has left nothing under that name.
C18_NoPartialOutput == \A f \in files : f.suffix = "" => f.whole

\* C19: "shot.py --show", its dependencies there, ends with exit status 0
\* and the windows listed; and no run of shot.py ends with exit status 0
\* after a capture that failed.
C19_ExitCodes ==
    pc = "exited" =>
        /\ (show /\ depsOk) => exit_code = 0 /\ Len(Events({"list_windows"})) = 1
        /\ exit_code = 0 => \A c \in DOMAIN Captures : Captures[c].ret

\* the place of a character (or of one of the tokens "book", "_", ".png", by
\* its first character) in the order that compares strings
Rank(c) ==
    CASE IsDigit(c) -> 48 + DigitVal(c)
      [] c = ".png" -> 46
      [] c = "_" -> 95
      [] OTHER -> 98

\* s < t as Python compares two str
RECURSIVE LexLess(_, _)
LexLess(s, t) ==
    IF t = <<>> THEN FALSE
    ELSE IF s = <<>> THEN TRUE
    ELSE IF s[1] = t[1] THEN LexLess(Tail(s), Tail(t))
    ELSE Rank(s[1]) < Rank(t[1])

\* C27: the file names of one run are pairwise distinct, and a page that is
\* captured before another has the name that sorts before the other's: the
\* sorted order of the names is the order of the pages.
C27_NameOrderIsPageOrder ==
    \A a \in DOMAIN img_paths : \A b \in DOMAIN img_paths :
        a < b => /\ img_paths[a] # img_paths[b]
                 /\ LexLess(img_paths[a], img_paths[b])
                 /\ Value(Index(img_paths[a])) < Value(Index(img_paths[b]))

\* pages 9, 10, 11: book_09.png before book_10.png before book_11.png
C27_Witness ==
    /\ pc = "done" /\ start = 9 /\ no = 3
    /\ img_paths = << <<"book", "_", "0", "9", ".png">>,
                      <<"book", "_", "1", "0", ".png">>,
                      <<"book", "_", "1", "1", ".png">> >>

-----------------------------------------------------------------------------
(* Properties of get_window_info *)

\* the two characters are one letter, in either case
SameLetter(c, d) == c = d \/ {c, d} \in {{"S", "s"}, {"B", "b"}, {"P", "p"}}

EqualUpToCase(a, b) ==
    Len(a) = Len(b) /\ \A k \in 1..Len(a) : SameLetter(a[k], b[k])

\* a occurs in b, letter case apart, and is shorter than b
ProperSubstring(a, b) ==
    /\ Len(a) < Len(b)
    /\ \E off \in 0..(Len(b) - Len(a)) : EqualUpToCase(a, SubSeq(b, off + 1, off + Len(a)))

\* the window is named by one of the two selectors
Selected(wn) ==
    \/ app_name # <<>> /\ EqualUpToCase(app_name, wn.proc)
    \/ window_label # <<>> /\ EqualUpToCase(window_label, wn.win)

\* C20: get_window_info returns a window if and only if the process name or
\* the title of some window equals its selector up to letter case, and the
\* window it returns is such a window; a window of whose process name the
\* selector is only a proper substring, and whose title is not selected, is
\* not what it returns.
C20_ExactCaseInsensitiveMatch ==
    pc = "located" =>
        /\ info.found <=> \E k \in DOMAIN windows : Selected(windows[k])
        /\ info.found =>
              \E k \in DOMAIN windows : Selected(windows[k]) /\ info = Found(windows[k])
        /\ \A k \in DOMAIN windows :
              ( /\ ProperSubstring(app_name, windows[k].proc)
                /\ ~(window_label # <<>> /\ EqualUpToCase(window_label, windows[k].win)) )
                  => info # Found(windows[k])

\* the first of the windows that is named by a selector, 0 when there is none
FirstSelected ==
    IF \E k \in DOMAIN windows : Selected(windows[k])
    THEN CHOOSE k \in DOMAIN windows :
             Selected(windows[k]) /\ \A j \in 1..(k - 1) : ~Selected(windows[j])
    ELSE 0

\* C21: get_window_info returns the first window, in the order of the
\* enumeration, whose process name equals app_name or whose title equals
\* window_title up to letter case, and None exactly when there is no such
\* window.
C21_FirstMatchOrNone ==
    pc = "located" =>
        info = IF FirstSelected = 0 THEN None ELSE Found(windows[FirstSelected])

\* the selector "s" passes over the window of "Sa" and finds the one of "S"
C20_Witness ==
    /\ pc = "located"
    /\ app_name = <<"s">> /\ window_label = <<>>
    /\ Len(windows) = 2
    /\ windows[1].proc = Sa /\ windows[2].proc = <<"S">>
    /\ info = Found(windows[2])

-----------------------------------------------------------------------------
(* Properties of capture_window *)

\* the margins m leave no pixel of the region that is captured of a window at g
NonPositive(g, m) ==
    \/ Region(g)[3] - m[3] - m[4] <= 0
    \/ Region(g)[4] - m[1] - m[2] <= 0

\* C16: a call of capture_window whose margins leave a region of no width or
\* no height has returned without a screenshot and without a file written.
C16_NonPositiveRegionRejected ==
    (pc = "returned" /\ NonPositive(geom, margins)) => trace = <<>> /\ files = {}

\* the call has returned and the output is there, saved whole
Saved ==
    /\ pc \in {"returned", "returned_fullscreen"}
    /\ File(out_path_of(1, 1), "", TRUE) \in files

ZeroMargins == <<0, 0, 0, 0>>

C23_ZeroMarginIsTightBox ==
    (screen.ink # {} /\ margins = ZeroMargins) =>
        LET r == crop_rect(screen, margins)
        IN  /\ \A q \in screen.ink :
                  r[1] <= q[1] /\ q[1] < r[3] /\ r[2] <= q[2] /\ q[2] < r[4]
            /\ \E q \in screen.ink : q[1] = r[1]
            /\ \E q \in screen.ink : q[1] = r[3] - 1
            /\ \E q \in screen.ink : q[2] = r[2]
            /\ \E q \in screen.ink : q[2] = r[4] - 1
            /\ Saved => out_img.w = r[3] - r[1] /\ out_img.h = r[4] - r[2]

\* one dot of ink in the middle of a region of 3 by 3: an image of 1 by 1
C23_Witness ==
    /\ Saved /\ margins = ZeroMargins
    /\ screen = Image(3, 3, {<<1, 1>>})
    /\ out_img = Image(1, 1, {<<0, 0>>})

\* C24: an image that is all white is saved with the width and height it has,
\* whatever the margins.
C24_AllWhiteKeepsSize ==
    (Saved /\ screen.ink = {}) => out_img.w = screen.w /\ out_img.h = screen.h

C24_Witness ==
    /\ Saved /\ screen = Image(3, 3, {})
    /\ margins = <<1, 1, 1, 1>>
    /\ out_img = Image(3, 3, {})

\* C25: with margins of zero, cropping what the cropper has made of an image
\* gives that same image, size and pixels, and it is what a call with margins
\* of zero saves.
C25_CropIdempotent ==
    LET once == crop_nonwhite_bbox_with_margin(screen, ZeroMargins)
    IN  /\ crop_nonwhite_bbox_with_margin(once, ZeroMargins) = once
        /\ (Saved /\ margins = ZeroMargins) => out_img = once

\* ink in the lower right of a region of 3 by 3, cut to 2 by 2, and cut again
\* to the same
C25_Witness ==
    /\ Saved /\ margins = ZeroMargins
    /\ screen = Image(3, 3, (1..2) \X (1..2))
    /\ out_img = Image(2, 2, (0..1) \X (0..1))
    /\ crop_nonwhite_bbox_with_margin(out_img, ZeroMargins) = out_img

\* C26: the image that a capture saves (margins of zero or more) is no wider
\* than a third of the width of its source (the window, or the whole screen),
\* rounded down, and the screenshot is taken at the full height of the source.
C26_LeftThirdOnly ==
    /\ (Saved /\ \A k \in 1..4 : margins[k] >= 0) => out_img.w <= geom[3] \div 3
    /\ \A j \in DOMAIN trace : trace[j].op = "screenshot" => trace[j].geom[4] = geom[4]

-----------------------------------------------------------------------------
(* Properties of the llm_ocr run *)

\* C7: at most one request is with the remote API at any time, whatever the
\* number of processes and their modes (as it must be if every call of
\* perform_mistral_ocr is made under the file lock).
C7_OneCallInFlight == Cardinality({p \in procs : inflight[p]}) <= 1

Ended == \A p \in procs : opc[p] \in {"exit", "crashed"}

Exited == \A p \in procs : opc[p] = "exit"

\* the calls of perform_mistral_ocr for the image k, in order
CallsOf(k) == SelectSeq(olog, LAMBDA e : e.op = "call" /\ e.item = k)

DirRun == \A p \in procs : omode[p] = "dir"

\* C8: in a directory run no image is called more than twice; an image is
\* called a second time only if the API answered its first call with 429
\* (RateLimited), and in a run that has come to its end every such image has
\* been called a second time.
C8_RetryExactlyRateLimited ==
    DirRun => \A k \in 1..nfiles :
        /\ Len(CallsOf(k)) <= 2
        /\ Len(CallsOf(k)) = 2 => CallsOf(k)[1].status = "429"
        /\ (Exited /\ Len(CallsOf(k)) >= 1 /\ CallsOf(k)[1].status = "429")
              => Len(CallsOf(k)) = 2

IsRemote(e) == e.op = "call" /\ e.status # "nokey"

\* C9: in a directory run, between two consecutive remote calls there is a
\* pacing sleep, and when the run is over every remote call that returned has
\* been followed by one.
C9_PacedAfterEveryCall ==
    \A j \in DOMAIN olog :
        (IsRemote(olog[j]) /\ olog[j].pass \in {"main", "retry"}) =>
            /\ \A k \in DOMAIN olog :
                  (k > j /\ IsRemote(olog[k])) =>
                      \E m \in (j + 1)..(k - 1) : olog[m].op = "pace"
            /\ (Exited /\ olog[j].status # "raise") =>
                  \E m \in DOMAIN olog : m > j /\ olog[m].op = "pace"

BackoffAt == {b \in DOMAIN olog : olog[b].op = "backoff"}

\* the main pass deferred the image of this call
Deferring(e) == e.op = "call" /\ e.pass = "main" /\ e.ret = RATE_LIMIT

\* C10: there is at most one back-off; it comes after the main pass has gone
\* through every image (each skipped or called, every main-pass call before
\* it), before every retry call, and only in a run that deferred an image; a
\* run that deferred an image and came to its end has backed off.
C10_BackoffOnceAfterMainPass ==
    /\ Cardinality(BackoffAt) <= 1
    /\ \A b \in BackoffAt :
          /\ \A j \in DOMAIN olog :
                (olog[j].op = "call" /\ olog[j].pass = "main") => j < b
          /\ \A k \in 1..nfiles :
                \E j \in 1..(b - 1) : olog[j].op \in {"call", "skip"} /\ olog[j].item = k
          /\ \E j \in 1..(b - 1) : Deferring(olog[j])
    /\ \A j \in DOMAIN olog :
          (olog[j].op = "call" /\ olog[j].pass = "retry") => \E b \in BackoffAt : b < j
    /\ (recording /\ Exited /\ \E j \in DOMAIN olog : Deferring(olog[j]))
          => Cardinality(BackoffAt) = 1

\* a run over three images: the first written at once, the second deferred and
\* written on retry
C10_Witness ==
    /\ recording /\ Exited /\ nfiles = 3
    /\ Cardinality(BackoffAt) = 1
    /\ \E b \in BackoffAt :
          /\ \E j \in 1..(b - 1) : olog[j].op = "write" /\ olog[j].item = 1
          /\ \E j \in 1..(b - 1) : Deferring(olog[j]) /\ olog[j].item = 2
          /\ \E j \in DOMAIN olog : j > b /\ olog[j].op = "write" /\ olog[j].item = 2

\* the image k was reached by the run: skipped, or perform_mistral_ocr called
Reached(k) == \E j \in DOMAIN olog : olog[j].op \in {"call", "skip"} /\ olog[j].item = k

\* C11: a directory run that has ended has reached every image of the
\* directory, whatever the calls for the other images did.
C11_FailureNeverAborts ==
    (recording /\ DirRun /\ Ended) => \A k \in 1..nfiles : Reached(k)

Skipped(k) == \E j \in DOMAIN olog : olog[j].op = "skip" /\ olog[j].item = k

Wrote(k) == \E j \in DOMAIN olog : olog[j].op = "write" /\ olog[j].item = k

\* the merge of the run at hand has written the file that is also the output
\* of the image k
MergedOver(k) == k = mitem /\ \E p \in procs : opc[p] = "exit"

\* the output of the image k is on disk as it was before the run began
HadOutput(k) == txt[k].exists /\ ~Wrote(k) /\ ~MergedOver(k)

\* in a directory run, an image that is skipped is neither called nor
\* written; an image whose output was there when the main loop came to it is
\* skipped; and a run over a directory where every image had its output
\* makes no call at all
SkipsWhatExists ==
    (recording /\ DirRun) =>
        /\ \A k \in 1..nfiles : Skipped(k) => Len(CallsOf(k)) = 0 /\ ~Wrote(k)
        /\ \A p \in procs : \A k \in 1..nfiles :
              (HadOutput(k) /\ opc[p] # "start" /\ idx[p] > k) => Skipped(k)
        /\ (\A k \in 1..nfiles : HadOutput(k)) =>
              \A j \in DOMAIN olog : olog[j].op # "call"

\* C12: in a directory run an image whose output exists when it is reached is
\* skipped without a call, and a run over a directory where every image has
\* its output makes no call and leaves every per-image output as it was.
C12_IdempotentResume ==
    [][/\ SkipsWhatExists'
       /\ (recording /\ DirRun /\ \A k \in 1..nfiles : HadOutput(k)) => txt' = txt]_vars

\* a second run over three images, each written by the first run: three
\* skips, no call
C12_Witness ==
    /\ recording /\ DirRun /\ Exited
    /\ run = 2 /\ nfiles = 3
    /\ \A k \in 1..3 : txt[k].exists /\ txt[k].s # <<Word(k)>> /\ Skipped(k)
    /\ Len(olog) = 3

\* the positions of main inside a "with lock:" block
InWithBlock == {"call", "wait", "release", "release_exc"}

\* C13: the lock is held only by a process that is inside one of the two
\* "with lock:" blocks; a process that has left the block, by return or by
\* exception, does not hold it, and when every process has ended it is free.
C13_LockReleased ==
    /\ lock # 0 =>
          /\ lock \in procs
          /\ opc[lock] \in InWithBlock
          /\ site[lock] \in {"main", "retry"}
    /\ Ended => lock = 0

\* the call of one process raised under the lock, and another process holds
\* the lock after it
C13_Witness ==
    \E p \in procs : \E q \in procs :
        /\ p # q
        /\ omode[p] = "dir" /\ opc[p] = "crashed"
        /\ lock = q /\ opc[q] = "wait"

\* C14: when a run with --merge has come to its end and an output exists,
\* the merged file holds the outputs of the images, each once, in sorted
\* order, each followed by a blank line, and nothing else; in every run of a
\* sequence of runs.
C14_MergedIsExactlyOutputs ==
    \A p \in procs :
        (opc[p] = "exit" /\ merge[p] /\ mitem = 0 /\ \E k \in 1..nfiles : txt[k].exists)
            => merged = Written(Entries(txt, 1, nfiles))

\* C31: a call of capture_window that has returned True has written its
\* output file, whole: it has not returned True after a cropping stage that
\* failed.
C31_TrueOnlyIfWritten ==
    (pc = "returned" /\ cret = "True") => File(out_path_of(1, 1), "", TRUE) \in files

\* C32: for margins of 0 or more and an image that is not all white, the
\* rectangle that is cropped lies within the image: 0 <= x0 <= x1 <= width
\* and 0 <= y0 <= y1 <= height.
C32_CropRectWithinImage ==
    (screen.ink # {} /\ \A k \in 1..4 : margins[k] >= 0) =>
        LET r == crop_rect(screen, margins)
        IN  /\ 0 <= r[1] /\ r[1] <= r[3] /\ r[3] <= screen.w
            /\ 0 <= r[2] /\ r[2] <= r[4] /\ r[4] <= screen.h

\* C33: once capture_window has returned, True or False, no file is left
\* under output_path + '.tmp.png' or output_path + '.cvtmp.png'.
C33_NoTemporaryLeft ==
    pc = "returned" => \A f \in files : f.suffix \notin {".tmp.png", ".cvtmp.png"}

\* C34: when zero_pad_filenames has returned, the directory holds as many
\* files as before the first call, the content of every file whose name
\* matched is under the name with the page padded, every other file is as
\* it was, and a second call with the same padding has renamed nothing.
C34_NoFileLost ==
    zpc = "done" =>
        /\ Cardinality(directory) = Cardinality(original)
        /\ \A f \in original :
              [name |-> new_fname(f.name, padding), content |-> f.content] \in directory
        /\ zcall = 2 => renamed = 0

\* the place of a stage in the order capture, PDF, OCR
StageNo(stage) == CHOOSE k \in 1..3 : Stages[k] = stage

\* C35: every Worker runs stages that are enabled only, in the order capture,
\* PDF, OCR, none of them before every stage it ran earlier has exited with
\* code 0; it emits at most one of finished_signal and error_signal, exactly
\* one once run has returned, and finished_signal only when every enabled
\* stage has been run and has exited with code 0.
C35_StagesInOrderOneSignal ==
    \A t \in DOMAIN threads :
        LET th == threads[t]
        IN  /\ \A j \in DOMAIN th.ran :
                  /\ th.params[th.ran[j].stage]
                  /\ \A k \in 1..(j - 1) :
                        /\ StageNo(th.ran[k].stage) < StageNo(th.ran[j].stage)
                        /\ th.ran[k].outcome = "zero"
            /\ Len(th.signals) <= 1
            /\ th.at = 5 => Len(th.signals) = 1
            /\ th.signals = <<"finished">> =>
                  /\ \A j \in DOMAIN th.ran : th.ran[j].outcome = "zero"
                  /\ \A k \in 1..3 :
                        th.params[Stages[k]] => \E j \in DOMAIN th.ran : th.ran[j].stage = Stages[k]

\* a Worker with the three stages enabled whose PDF stage failed: capture and
\* PDF were run, OCR was not, error_signal was emitted; and one before it
\* that ran all of its stages and emitted finished_signal
C35_Witness ==
    /\ Len(threads) = 2
    /\ threads[1].at = 5 /\ threads[1].signals = <<"finished">> /\ Len(threads[1].ran) = 3
    /\ threads[2].at = 5 /\ threads[2].params.pdf /\ threads[2].params.ocr
    /\ threads[2].ran = << [stage |-> "capture", outcome |-> "zero"],
                           [stage |-> "pdf", outcome |-> "nonzero"] >>
    /\ threads[2].signals = <<"error">>

\* the Workers that are running
RunningWorkers == { t \in DOMAIN threads : threads[t].running }

\* C36: at most one Worker is running, and a click on runButton while a
\* Worker is running makes no Worker and leaves the running one as it is.
C36_AtMostOneWorker ==
    [][/\ Cardinality(RunningWorkers') <= 1
       /\ (clicks' # clicks /\ RunningWorkers # {}) =>
              /\ threads' = threads /\ worker' = worker
              /\ gpc' = "idle" /\ glog' = glog + 1]_vars

\* the second click came while the first Worker was running and was turned
\* away; the Worker went on, has emitted finished_signal and has ended
C36_Witness ==
    /\ clicks = 2 /\ glog = 1 /\ gpc = "idle"
    /\ Len(threads) = 1 /\ worker = 1
    /\ threads[1].signals = <<"finished">> /\ ~threads[1].running

\* batch_capture has returned, has raised, or the process has exited
BatchOver == pc \in {"done", "raised", "exited"}

\* the pages 'start' and up, one capture attempt each, no more than 'no' of
\* them, and all 'no' of them, each followed by its advance, once
\* batch_capture has returned
OneAttemptPerPage ==
    /\ Len(Captures) <= no
    /\ \A c \in DOMAIN Captures : Captures[c].page = start + c - 1
    /\ pc = "done" => Len(Captures) = no /\ Len(Advances) = no /\ i = start + no

\* C29: the loop of batch_capture, once entered, comes to an end, and when
\* batch_capture returns it has gone through the loop 'no' times, with one
\* capture attempt for each page of start..start+no-1, in order, and none
\* for any other page.
C29_ExactlyCountIterations == []OneAttemptPerPage /\ ((pc = "loop") ~> BatchOver)

\* three pages from 98, the first capture failed, the other two taken
C29_Witness ==
    /\ pc = "done" /\ start = 98 /\ no = 3
    /\ Len(Captures) = 3
    /\ \A c \in 1..3 : Captures[c].page = 97 + c
    /\ ~Captures[1].ret /\ Captures[2].ret /\ Captures[3].ret

\* C30: in a directory run that has come to its end, an image whose last call
\* (of the main pass or of the retry pass) was answered with 200 has its
\* output file, whatever the text recognised; an image without output had its
\* last call rate limited or failed.
C30_SuccessPersists ==
    (recording /\ DirRun /\ Exited) =>
        \A k \in 1..nfiles :
            LET calls == CallsOf(k)
            IN  (calls # <<>> /\ calls[Len(calls)].status = "200") => txt[k].exists

\* C28: the merge step of a run leaves every per-image output as it was.
C28_MergeKeepsOutputs ==
    [][\A p \in procs : (opc[p] = "merge" /\ opc'[p] = "exit") => txt' = txt]_vars

====
